---- MODULE Spec2Model ----
(***************************************************************************)
(* Finite-difference advection-diffusion model: the Quantity container,    *)
(* the initial/boundary condition setters, the scheme library and the two  *)
(* time-step drivers (func_cont.py: one dt, numeric + analytic field;      *)
(* funcs.py: four dt values).                                              *)
(*                                                                         *)
(* Arithmetic.  Field values are integers (one concentration unit each);   *)
(* scheme coefficients are integers in parts per million.  Every update    *)
(* sums its coefficient*value products exactly and rounds the sum down to  *)
(* the value grid, which stands for the rounding of the floating-point     *)
(* evaluation.  numpy arrays are references into a per-Quantity memory     *)
(* (field mem), so that copying and aliasing are distinguishable.          *)
(* np.empty leaves an array uninitialised: its contents are chosen from    *)
(* Garbage when the Quantity is constructed.                               *)
(***************************************************************************)
EXTENDS Integers, Sequences, FiniteSets, TLC

\* ------------------------------------------------------------- bounds
\* largest grid point count given to a driver
MaxN == 6
\* largest step count given to the single-dt driver
MaxT == 4
\* largest requested step count given to the multi-resolution driver
MaxNumTime == 2
\* number of API calls explored on a free-standing Quantity
MaxCalls == 2

\* ------------------------------------------------- program constants
\* u = 3.39, held in hundredths
U100 == 339
K == 2
C1 == 600
DX == 1000
\* nsdf: k = 5, h = 20
NsdfK == 5
NsdfH == 20
\* the four time steps of the multi-resolution driver and the one of the
\* single-dt driver
dts == <<30, 60, 180, 360>>
DT == 30

PPM == 1000 * 1000

\* contents an uninitialised array cell may hold
Garbage == {-7, 3}

\* ------------------------------------------------------ numpy arrays
Array(n, v) == [i \in 0..(n - 1) |-> v]
\* numpy accepts index i on an axis of length n iff -n <= i < n
InRange(n, i) == -n <= i /\ i < n
\* and a negative index counts from the end
PyIdx(n, i) == IF i < 0 THEN n + i ELSE i
\* int(n_grid/3) for n_grid >= 0
SrcIdx(n_grid) == n_grid \div 3

\* ------------------------------------------------------- Quantity
\* Quantity.__init__: three arrays and the store, all uninitialised; g
\* gives the contents found in each allocation.
Quantity(n_grid, n_time, g) ==
    [n_grid |-> n_grid,
     prev |-> 1, now |-> 2, next |-> 3,
     mem |-> (1 :> Array(n_grid, g.prev)) @@ (2 :> Array(n_grid, g.now))
               @@ (3 :> Array(n_grid, g.next)),
     store |-> [t \in 0..(n_time - 1) |-> Array(n_grid, g.store)]]

GarbageFills == [prev : Garbage, now : Garbage, next : Garbage, store : Garbage]

\* np.empty raises ValueError on a negative dimension
AllocOK(n_grid, n_time) == n_grid >= 0 /\ n_time >= 0

NTime(q) == Cardinality(DOMAIN q.store)
Ref(q, attr) == IF attr = "prev" THEN q.prev ELSE IF attr = "now" THEN q.now ELSE q.next
\* self.__getattribute__(attr)
Level(q, attr) == q.mem[Ref(q, attr)]
Now(q) == q.mem[q.now]
Nxt(q) == q.mem[q.next]
Prev(q) == q.mem[q.prev]

\* arr[i] = v through reference ref (every alias of ref sees the write)
SetItem(q, ref, i, v) == [q EXCEPT !.mem[ref][PyIdx(q.n_grid, i)] = v]
SetNext(q, i, v) == SetItem(q, q.next, i, v)

\* store[:, time_step] raises IndexError outside numpy's index range
StoreOK(q, time_step) == InRange(NTime(q), time_step)
StoreNoWrap(q, time_step, attr) ==
    [q EXCEPT !.store[IF time_step < 0 THEN 0 ELSE time_step] = Level(q, attr)]
StoreFirstColumn(q, time_step, attr) ==
    [q EXCEPT !.store[0] = Level(q, attr)]
\* Quantity.store_timestep: the level's values are copied into the column
store_timestep(q, time_step, attr) ==
    [q EXCEPT !.store[PyIdx(NTime(q), time_step)] = Level(q, attr)]

\* the references still held by the Quantity; everything else is collected
Live(q) == {q.prev, q.now, q.next}
Collect(q) == [q EXCEPT !.mem = [a \in Live(q) |-> q.mem[a]]]
Fresh(q) == CHOOSE a \in 1..5 : a \notin DOMAIN q.mem /\ \A b \in 1..(a - 1) : b \in DOMAIN q.mem
\* copy.copy(arr): a new array with the same values
CopyInto(q, attr, src) ==
    LET a == Fresh(q)
        q1 == [q EXCEPT !.mem = (a :> q.mem[src]) @@ q.mem]
    IN  Collect(IF attr = "prev" THEN [q1 EXCEPT !.prev = a] ELSE [q1 EXCEPT !.now = a])

ShiftAliased(q) ==
    Collect([CopyInto(q, "prev", q.now) EXCEPT !.now = q.next])
\* Quantity.shift
shift(q) == CopyInto(CopyInto(q, "prev", q.now), "now", q.next)

\* ------------------------------------------ initial / boundary conditions
RECURSIVE Fill(_, _, _, _, _)
\* arr[lo:hi] = v on reference ref
Fill(q, ref, lo, hi, v) ==
    IF lo >= hi THEN q ELSE Fill(SetItem(q, ref, lo, v), ref, lo + 1, hi, v)

\* c.now[int(n_grid/3)] raises IndexError on an empty array
InitialOK(n_grid) == InRange(n_grid, SrcIdx(n_grid))
\* initial_conditions: c.now[0:n_grid-1] = 0; c.now[int(n_grid/3)] = c1
initial_conditions(q, n_grid) ==
    SetItem(Fill(q, q.now, 0, n_grid - 1, 0), q.now, SrcIdx(n_grid), C1)

\* c_array[1] raises IndexError on an array of one cell
BoundaryOK(n_grid) == InRange(n_grid, 0) /\ InRange(n_grid, 1) /\ InRange(n_grid, n_grid - 2)
BoundaryLeftOnly(q, ref, n_grid) ==
    SetItem(q, ref, 0, q.mem[ref][PyIdx(n_grid, 1)])
\* boundary_conditions: c_array[0] = c_array[1]; c_array[n-1] = c_array[n-2]
boundary_conditions(q, ref, n_grid) ==
    LET q1 == SetItem(q, ref, 0, q.mem[ref][PyIdx(n_grid, 1)])
    IN  SetItem(q1, ref, n_grid - 1, q1.mem[ref][PyIdx(n_grid, n_grid - 2)])

\* ------------------------------------------------------- coefficients
\* u*dt/dx, in ppm
Courant(dt) == (U100 * dt * (PPM \div 100)) \div DX
\* k*dt/dx**2, in ppm
DiffNo(dt) == (K * dt * PPM) \div (DX * DX)
\* u*dt/(2*dx), in ppm
HalfCourant(dt) == (U100 * dt * (PPM \div 100)) \div (2 * DX)
\* (u**2*dt + 2*k) * dt/(4*dx**2), in ppm (u**2*dt + 2*k held in hundredths)
LWDiff(dt) == (((U100 * U100 * dt + 2 * K * 10000) \div 100) * dt)
                 \div (4 * 100 * ((DX * DX) \div PPM))
\* (k*u*dt**2)/(2*dx**3), in ppm
LWThird(dt) == (K * U100 * dt * dt) \div (100 * 2 * DX * ((DX * DX) \div PPM))
\* Crank_Nicolson: a = (u*dt)/(4*dx), b = (k*dt)/(2*dx**2), in ppm, for the u
\* (in hundredths) and k the caller passes
CNaOf(u100, dt) == (u100 * dt * (PPM \div 100)) \div (4 * DX)
CNbOf(k, dt) == (k * dt * PPM) \div (2 * DX * DX)
\* and for the u and k numeric passes
CNa(dt) == CNaOf(U100, dt)
CNb(dt) == CNbOf(K, dt)
\* np.exp(h/K) for h = 20, K = 2.0, rounded to the unit
NsdfExp == 22026
\* nsdf: a1*u with a1 = k/h, and b1 = a1/(np.exp(h/K) - 1), in ppm
NsdfA1U == (NsdfK * U100 * (PPM \div 100)) \div NsdfH
NsdfB1 == ((NsdfK * PPM) \div NsdfH) \div (NsdfExp - 1)

\* ------------------------------------------------- per-point updates
D1(now, pt) == now[pt] - now[pt - 1]
Lap(now, pt) == now[pt + 1] - 2 * now[pt] + now[pt - 1]

UpstreamPt(now, pt, dt) ==
    now[pt] + ((DiffNo(dt) * Lap(now, pt) - Courant(dt) * D1(now, pt)) \div PPM)

FCTSPt(now, pt, dt) ==
    now[pt] + ((0 - HalfCourant(dt) * (now[pt + 1] - now[pt - 1])) \div PPM)

nsdfPt(now, pt, dt) ==
    (NsdfB1 * now[pt + 1] + (PPM - NsdfA1U - 2 * NsdfB1) * now[pt]
       + (NsdfA1U + NsdfB1) * now[pt - 1]) \div PPM

LWRaw(now, pt, dt) ==
    now[pt] + ((LWDiff(dt) * Lap(now, pt)
                  - HalfCourant(dt) * (now[pt + 1] - now[pt - 1])
                  - LWThird(dt) * (2 * now[pt - 1] - now[pt - 2]
                                     - 2 * now[pt + 1] + now[pt + 2])) \div PPM)
\* if (c.next[pt] < 0): c.next[pt] = 0
LWPt(now, pt, dt) == IF LWRaw(now, pt, dt) < 0 THEN 0 ELSE LWRaw(now, pt, dt)

PtValue(name, now, pt, dt) ==
    CASE name = "Upstream" -> UpstreamPt(now, pt, dt)
      [] name = "FCTS" -> FCTSPt(now, pt, dt)
      [] name = "nsdf" -> nsdfPt(now, pt, dt)
      [] name = "Lax_Wendroff" -> LWPt(now, pt, dt)

UpdatePtSeidel(name, q, pt, dt) ==
    SetNext(q, pt, PtValue(name, [Now(q) EXCEPT ![pt - 1] = Nxt(q)[pt - 1]], pt, dt))
\* the loop body: c.next[pt] = <update read from c.now>
UpdatePt(name, q, pt, dt) == SetNext(q, pt, PtValue(name, Now(q), pt, dt))

RECURSIVE Loop(_, _, _, _, _)
\* for pt in np.arange(lo, hi): <loop body>
Loop(name, q, pt, hi, dt) ==
    IF pt >= hi THEN q
    ELSE Loop(name, UpdatePt(name, q, pt, dt), pt + 1, hi, dt)

\* ------------------------------------------------------ Crank-Nicolson
\* cof1_all (the implicit matrix) and cof2_all (the explicit one), in ppm
cof1_all(n, a, b) ==
    [i \in 0..(n - 1) |-> [j \in 0..(n - 1) |->
        IF i = n - 1 THEN (IF j = n - 1 THEN PPM ELSE IF j = n - 2 THEN 0 - PPM ELSE 0)
        ELSE IF i = 0 THEN (IF j = 0 THEN PPM ELSE IF j = 1 THEN 0 - PPM ELSE 0)
        ELSE IF j = i - 1 THEN 0 - a - b
        ELSE IF j = i THEN PPM + 2 * b
        ELSE IF j = i + 1 THEN a - b ELSE 0]]
cof2_all(n, a, b) ==
    [i \in 0..(n - 1) |-> [j \in 0..(n - 1) |->
        IF i = n - 1 \/ i = 0 THEN 0
        ELSE IF j = i - 1 THEN a + b
        ELSE IF j = i THEN PPM - 2 * b
        ELSE IF j = i + 1 THEN b - a ELSE 0]]

RECURSIVE RowDot(_, _, _, _, _)
\* sum over j in lo..hi, j # skip, of row[j]*x[j]
RowDot(row, x, lo, hi, skip) ==
    IF lo > hi THEN 0
    ELSE (IF lo = skip THEN 0 ELSE row[lo] * x[lo]) + RowDot(row, x, lo + 1, hi, skip)

\* np.matmul(cof2_all, c_mid)
MatVec(M, x, n) == [i \in 0..(n - 1) |-> RowDot(M[i], x, 0, n - 1, -1)]

\* np.linalg.inv raises LinAlgError on a singular matrix.  The interior rows
\* are strictly diagonally dominant for a < 1/2 + b, so the matrix is singular
\* only when its two boundary rows are all it has (n = 2) and cancel.
Singular(M, n) ==
    \E i, k \in 0..(n - 1) : i < k /\ \A j \in 0..(n - 1) : M[i][j] = 0 - M[k][j]

RECURSIVE Sweep(_, _, _, _, _)
Sweep(M, rhs, x, i, n) ==
    IF i >= n THEN x
    ELSE Sweep(M, rhs,
               [x EXCEPT ![i] = (rhs[i] - RowDot(M[i], x, 0, n - 1, i)) \div M[i][i]],
               i + 1, n)
RECURSIVE Relax(_, _, _, _, _)
Relax(M, rhs, x, n, left) ==
    LET y == Sweep(M, rhs, x, 0, n)
    IN  IF y = x \/ left = 0 THEN y ELSE Relax(M, rhs, y, n, left - 1)
\* np.matmul(np.linalg.inv(cof1_all), rhs) on the value grid: the vector x with
\* 0 <= rhs[i] - (cof1_all x)[i] < cof1_all[i][i] in every row, found by
\* relaxation from rhs
Solve(M, rhs, n) == Relax(M, rhs, [i \in 0..(n - 1) |-> rhs[i] \div PPM], n, 80)

\* rhs = cof2_all c_mid; nxt = inv(cof1_all) rhs
CNnxtOf(now, n, a, b) == Solve(cof1_all(n, a, b), MatVec(cof2_all(n, a, b), now, n), n)
CNnxt(now, n, dt) == CNnxtOf(now, n, CNa(dt), CNb(dt))

\* init[1] = -1 raises IndexError below two grid points
CNOK(n, dt) == n >= 2 /\ ~Singular(cof1_all(n, CNa(dt), CNb(dt)), n)

CNNoClamp(v) == v
\* max(0, nxt[pt])
CNClamp(v) == IF v > 0 THEN v ELSE 0

RECURSIVE CNLoop(_, _, _, _)
CNLoop(q, nxt, pt, hi) ==
    IF pt >= hi THEN q ELSE CNLoop(SetNext(q, pt, CNClamp(nxt[pt])), nxt, pt + 1, hi)

\* ------------------------------------------------------------ schemes
\* funcs.py: no source write
Upstream(q, dt) == Loop("Upstream", q, 1, q.n_grid - 1, dt)
FCTS(q, dt) == Loop("FCTS", q, 1, q.n_grid - 1, dt)
nsdf(q, dt) == Loop("nsdf", q, 1, q.n_grid - 1, dt)
Lax_Wendroff(q, dt) == Loop("Lax_Wendroff", q, 2, q.n_grid - 2, dt)
CrankNicolsonFromTwo(q, a, b) == CNLoop(q, CNnxtOf(Now(q), q.n_grid, a, b), 2, q.n_grid - 1)
\* Crank_Nicolson with the coefficients a and b its u, k and dt give
Crank_Nicolson_ab(q, a, b) == CNLoop(q, CNnxtOf(Now(q), q.n_grid, a, b), 1, q.n_grid - 1)
Crank_Nicolson(q, dt) == Crank_Nicolson_ab(q, CNa(dt), CNb(dt))

UpstreamNoSource(q, dt) == Loop("Upstream", q, 1, q.n_grid - 1, dt)
\* func_cont.py: c.next[int(n_grid/3)] = c1 after the loop
Upstream_c1(q, dt) == SetNext(Upstream(q, dt), SrcIdx(q.n_grid), C1)
nsdf_c1(q, dt) == SetNext(nsdf(q, dt), SrcIdx(q.n_grid), C1)
Lax_Wendroff_c1(q, dt) == SetNext(Lax_Wendroff(q, dt), SrcIdx(q.n_grid), C1)
Crank_Nicolson_c1(q, dt) == SetNext(Crank_Nicolson(q, dt), SrcIdx(q.n_grid), C1)

Schemes == {"Upstream", "FCTS", "nsdf", "Lax_Wendroff", "Crank_Nicolson"}

\* whether the scheme call returns (it raises otherwise)
SchemeOK(name, n_grid, dt) == name = "Crank_Nicolson" => CNOK(n_grid, dt)

\* the scheme call of func_cont.numeric
ApplyCont(name, q, dt) ==
    CASE name = "Upstream" -> Upstream_c1(q, dt)
      [] name = "FCTS" -> FCTS(q, dt)
      [] name = "nsdf" -> nsdf_c1(q, dt)
      [] name = "Lax_Wendroff" -> Lax_Wendroff_c1(q, dt)
      [] name = "Crank_Nicolson" -> Crank_Nicolson_c1(q, dt)
\* the scheme call of funcs.numeric
ApplyMulti(name, q, dt) ==
    CASE name = "Upstream" -> Upstream(q, dt)
      [] name = "FCTS" -> FCTS(q, dt)
      [] name = "nsdf" -> nsdf(q, dt)
      [] name = "Lax_Wendroff" -> Lax_Wendroff(q, dt)
      [] name = "Crank_Nicolson" -> Crank_Nicolson(q, dt)

\* ------------------------------------------------------------ analytic
\* x: zero before the source index, then dx per grid point
XCoord(n_grid) ==
    [i \in 0..(n_grid - 1) |-> IF i < SrcIdx(n_grid) THEN 0 ELSE (i - SrcIdx(n_grid)) * DX]

\* math.erfc(num/den) for den > 0, in ppm: the value at the middle of the
\* half-unit interval that holds num/den
Erfc(num, den) ==
    LET h == (2 * num) \div den
    IN  CASE h <= -5 -> 2000000
          [] h = -4 -> 1986672
          [] h = -3 -> 1922900
          [] h = -2 -> 1711156
          [] h = -1 -> 1276326
          [] h = 0 -> 723674
          [] h = 1 -> 288844
          [] h = 2 -> 77100
          [] h = 3 -> 13328
          [] h >= 4 -> 0

\* (c1/2)*math.erfc((x[i]-(u*t))/(2*k*t)), or 0 before the source index
AnalyticPt(i, t, x, n_grid) ==
    IF i < SrcIdx(n_grid) THEN 0
    ELSE (C1 * (Erfc(100 * x[i] - U100 * t, 100 * 2 * K * t) \div 2)) \div PPM

\* the division by 2*k*t raises ZeroDivisionError at t = 0
AnalyticOK(t, n_grid) == t # 0 \/ SrcIdx(n_grid) >= n_grid

RECURSIVE AnalyticLoop(_, _, _, _, _)
AnalyticLoop(q, i, t, x, n_grid) ==
    IF i >= n_grid THEN q
    ELSE AnalyticLoop(SetNext(q, i, AnalyticPt(i, t, x, n_grid)), i + 1, t, x, n_grid)
analytic(q, t, x, n_grid) == AnalyticLoop(q, 0, t, x, n_grid)

\* ------------------------------------------------------------- state
VARIABLES
    variant,     \* "cont": func_cont.numeric, "multi": funcs.numeric
    schemeName,  \* the scheme the time step loop calls
    argT, argN,  \* args[0], args[1]
    pc,          \* position in numeric
    run,         \* index i into dts (multi)
    dt, n_time,
    c, c_an,     \* the numeric and the analytic Quantity
    x, t_val, t,
    cs, n_times, \* histories and step counts handed to make_graph
    err,         \* the exception that ended the run
    wlog,        \* time_step of every store_timestep call on c, in call order
    calls,       \* scheme calls made so far
    qcall,       \* the last call made on a free-standing Quantity
    oplog        \* the calls numeric made in the current run, in order, each
                 \* with the loop index t (analytic: with its argument t)

vars == <<variant, schemeName, argT, argN, pc, run, dt, n_time, c, c_an, x, t_val, t,
          cs, n_times, err, wlog, calls, qcall, oplog>>

NoQuantity == Quantity(0, 0, [prev |-> 0, now |-> 0, next |-> 0, store |-> 0])
NoCall == [op |-> "none", index |-> 0, attr |-> "next", ok |-> TRUE, before |-> <<>>]

\* n_time of run i of the multi-resolution driver
StepFactor(i) == IF i = 0 THEN 12 ELSE IF i = 1 THEN 5 ELSE IF i = 2 THEN 2 ELSE 1

Init ==
    /\ variant \in {"cont", "multi"}
    /\ schemeName \in Schemes
    /\ argN \in {-1} \cup 0..MaxN
    /\ argT \in {-1} \cup 0..(IF variant = "cont" THEN MaxT ELSE MaxNumTime)
    /\ pc = "construct"
    /\ run = 0
    /\ dt = IF variant = "cont" THEN DT ELSE dts[1]
    /\ n_time = IF variant = "cont" THEN argT ELSE StepFactor(0) * argT
    /\ c = NoQuantity /\ c_an = NoQuantity
    /\ x = <<>> /\ t_val = 0 /\ t = 0
    /\ cs = <<>> /\ n_times = <<>>
    /\ err = "" /\ wlog = <<>> /\ calls = 0
    /\ qcall = NoCall /\ oplog = <<>>

Fail(e) ==
    /\ pc' = "failed" /\ err' = e
    /\ UNCHANGED <<variant, schemeName, argT, argN, run, dt, n_time, c, c_an, x, t_val, t,
                   cs, n_times, wlog, calls, qcall, oplog>>

\* the elapsed time after one more step: t_val = t_val + dt
ElapsedLate(tv, step) == tv
Elapsed(tv, step) == tv + step

Config == <<variant, schemeName, argT, argN, qcall>>

\* c = Quantity(n_grid, n_time); c_an = Quantity(n_grid, n_time)
Construct ==
    /\ pc = "construct"
    /\ IF AllocOK(argN, n_time)
       THEN /\ \E g \in GarbageFills, h \in Garbage :
                 /\ c' = Quantity(argN, n_time, g)
                 /\ c_an' = IF variant = "cont"
                            THEN Quantity(argN, n_time, [g EXCEPT !.now = h])
                            ELSE NoQuantity
            /\ pc' = "initial" /\ wlog' = <<>> /\ oplog' = <<>>
            /\ UNCHANGED <<Config, run, dt, n_time, x, t_val, t, cs, n_times, err, calls>>
       ELSE Fail("ValueError")

\* initial_conditions(c1, c, n_grid); initial_conditions(c1, c_an, n_grid)
InitialStep ==
    /\ pc = "initial"
    /\ IF InitialOK(argN)
       THEN /\ c' = initial_conditions(c, argN)
            /\ c_an' = IF variant = "cont" THEN initial_conditions(c_an, argN) ELSE c_an
            /\ oplog' = Append(oplog, <<"initial_conditions", 0>>)
            /\ pc' = "bc0"
            /\ UNCHANGED <<Config, run, dt, n_time, x, t_val, t, cs, n_times, err, wlog, calls>>
       ELSE Fail("IndexError")

\* boundary_conditions(c.now, n_grid); boundary_conditions(c_an.now, n_grid)
SeedBoundary ==
    /\ pc = "bc0"
    /\ IF BoundaryOK(argN)
       THEN /\ c' = boundary_conditions(c, c.now, argN)
            /\ c_an' = IF variant = "cont" THEN boundary_conditions(c_an, c_an.now, argN)
                       ELSE c_an
            /\ oplog' = Append(oplog, <<"boundary_conditions", 0>>)
            /\ pc' = "store0"
            /\ UNCHANGED <<Config, run, dt, n_time, x, t_val, t, cs, n_times, err, wlog, calls>>
       ELSE Fail("IndexError")

LoopPcInclusive(tt) == IF tt <= n_time THEN "scheme" ELSE "end"
\* where the for loop over np.arange(1, n_time) goes with loop variable tt
LoopPc(tt) == IF tt < n_time THEN "scheme" ELSE "end"

\* c.store_timestep(0, 'now'); c_an.store_timestep(0, 'now'); x = ...; t_val = 0
SeedStore ==
    /\ pc = "store0"
    /\ IF StoreOK(c, 0)
       THEN /\ c' = store_timestep(c, 0, "now")
            /\ c_an' = IF variant = "cont" THEN store_timestep(c_an, 0, "now") ELSE c_an
            /\ wlog' = Append(wlog, 0)
            /\ x' = IF variant = "cont" THEN XCoord(argN) ELSE x
            /\ t_val' = 0 /\ t' = 1
            /\ oplog' = Append(oplog, <<"store_timestep", 0>>)
            /\ pc' = LoopPc(1)
            /\ UNCHANGED <<Config, run, dt, n_time, cs, n_times, err, calls>>
       ELSE Fail("IndexError")

\* Upstream(c, u, k, n_grid, dt, dx[, c1]), or the scheme put in its place
SchemeStep ==
    /\ pc = "scheme"
    /\ IF SchemeOK(schemeName, argN, dt)
       THEN /\ c' = IF variant = "cont" THEN ApplyCont(schemeName, c, dt)
                    ELSE ApplyMulti(schemeName, c, dt)
            /\ calls' = calls + 1
            /\ oplog' = Append(oplog, <<"scheme", t>>)
            /\ pc' = IF variant = "cont" THEN "analytic" ELSE "bc"
            /\ UNCHANGED <<Config, run, dt, n_time, c_an, x, t_val, t, cs, n_times, err, wlog>>
       ELSE Fail("LinAlgError")

\* t_val = t_val + dt; analytic(c_an, u, k, t_val, x, n_grid, c1)
AnalyticStep ==
    /\ pc = "analytic"
    /\ IF AnalyticOK(Elapsed(t_val, dt), argN)
       THEN /\ t_val' = Elapsed(t_val, dt)
            /\ c_an' = analytic(c_an, Elapsed(t_val, dt), x, argN)
            /\ oplog' = Append(oplog, <<"analytic", Elapsed(t_val, dt)>>)
            /\ pc' = "bc"
            /\ UNCHANGED <<Config, run, dt, n_time, c, x, t, cs, n_times, err, wlog, calls>>
       ELSE Fail("ZeroDivisionError")

\* boundary_conditions(c.next, n_grid); boundary_conditions(c_an.next, n_grid)
BoundaryStep ==
    /\ pc = "bc"
    /\ c' = boundary_conditions(c, c.next, argN)
    /\ c_an' = IF variant = "cont" THEN boundary_conditions(c_an, c_an.next, argN) ELSE c_an
    /\ oplog' = Append(oplog, <<"boundary_conditions", t>>)
    /\ pc' = "store"
    /\ UNCHANGED <<Config, run, dt, n_time, x, t_val, t, cs, n_times, err, wlog, calls>>

\* c.store_timestep(t); c_an.store_timestep(t)
StoreStep ==
    /\ pc = "store"
    /\ c' = store_timestep(c, t, "next")
    /\ c_an' = IF variant = "cont" THEN store_timestep(c_an, t, "next") ELSE c_an
    /\ wlog' = Append(wlog, t)
    /\ oplog' = Append(oplog, <<"store_timestep", t>>)
    /\ pc' = "shift"
    /\ UNCHANGED <<Config, run, dt, n_time, x, t_val, t, cs, n_times, err, calls>>

\* c.shift(); c_an.shift(); and the next turn of the loop
ShiftStep ==
    /\ pc = "shift"
    /\ c' = shift(c)
    /\ c_an' = IF variant = "cont" THEN shift(c_an) ELSE c_an
    /\ t' = t + 1
    /\ oplog' = Append(oplog, <<"shift", t>>)
    /\ pc' = LoopPc(t + 1)
    /\ UNCHANGED <<Config, run, dt, n_time, x, t_val, cs, n_times, err, wlog, calls>>

\* cont: cs = [c, c_an].  multi: cs.append(c); n_times.append(n_time), and the
\* next dt of dts with its n_time.
EndRun ==
    /\ pc = "end"
    /\ IF variant = "cont"
       THEN /\ cs' = <<c.store, c_an.store>>
            /\ n_times' = <<n_time>>
            /\ pc' = "graph"
            /\ UNCHANGED <<run, dt, n_time>>
       ELSE /\ cs' = Append(cs, c.store)
            /\ n_times' = Append(n_times, n_time)
            /\ IF run + 1 < Len(dts)
               THEN /\ run' = run + 1
                    /\ dt' = dts[run + 2]
                    /\ n_time' = StepFactor(run + 1) * argT
                    /\ pc' = "construct"
               ELSE /\ pc' = "graph"
                    /\ UNCHANGED <<run, dt, n_time>>
    /\ UNCHANGED <<Config, c, c_an, x, t_val, t, err, wlog, calls, oplog>>

\* make_graph(cs, dt, n_time): the histories are handed over
MakeGraph ==
    /\ pc = "graph"
    /\ pc' = "done"
    /\ UNCHANGED <<Config, run, dt, n_time, c, c_an, x, t_val, t, cs, n_times, err, wlog,
                   calls, oplog>>

Next ==
    \/ Construct
    \/ InitialStep
    \/ SeedBoundary
    \/ SeedStore
    \/ SchemeStep
    \/ AnalyticStep
    \/ BoundaryStep
    \/ StoreStep
    \/ ShiftStep
    \/ EndRun
    \/ MakeGraph

Spec == Init /\ [][Next]_vars

\* numeric is one sequential thread: until it has returned or raised, it goes
\* on to its next statement (every action of Next moves pc)
Positions == {"construct", "initial", "bc0", "store0", "scheme", "analytic", "bc", "store",
              "shift", "end", "graph", "done", "failed"}
Advance == pc \notin {"done", "failed"} /\ pc' \in Positions \ {pc}
SpecFair == Spec /\ WF_pc(Advance)

\* ------------------------------------------- a free-standing Quantity
\* The Quantity methods and the setters called in any order, with any
\* time_step, on one Quantity: the calls a caller other than numeric can make.
Attrs == {"prev", "now", "next"}

InitQ ==
    /\ variant = "api"
    /\ schemeName = "Upstream"
    /\ argN \in 1..3
    /\ argT \in 0..2
    /\ pc = "api"
    /\ run = 0 /\ dt = DT /\ n_time = argT
    /\ \E g \in GarbageFills : c = Quantity(argN, argT, g)
    /\ c_an = NoQuantity
    /\ x = <<>> /\ t_val = 0 /\ t = 0
    /\ cs = <<>> /\ n_times = <<>>
    /\ err = "" /\ wlog = <<>> /\ calls = 0
    /\ qcall = NoCall /\ oplog = <<>>

QFrame == UNCHANGED <<variant, schemeName, argT, argN, pc, run, dt, n_time, c_an, x, t_val, t,
                      cs, n_times, err, wlog, oplog>>

Called(op, index, attr, ok) ==
    /\ qcall' = [op |-> op, index |-> index, attr |-> attr, ok |-> ok, before |-> c.store]
    /\ calls' = calls + 1

\* c.store_timestep(index, attr)
QStore ==
    /\ pc = "api" /\ calls < MaxCalls
    /\ \E index \in (0 - argT - 2)..(argT + 1), attr \in Attrs :
         /\ c' = IF StoreOK(c, index) THEN store_timestep(c, index, attr) ELSE c
         /\ Called("store_timestep", index, attr, StoreOK(c, index))
    /\ QFrame

\* c.shift()
QShift ==
    /\ pc = "api" /\ calls < MaxCalls
    /\ c' = shift(c)
    /\ Called("shift", 0, "next", TRUE)
    /\ QFrame

\* initial_conditions(c1, c, n_grid)
QInitial ==
    /\ pc = "api" /\ calls < MaxCalls
    /\ c' = initial_conditions(c, argN)
    /\ Called("initial_conditions", 0, "now", TRUE)
    /\ QFrame

\* boundary_conditions(c.<attr>, n_grid)
QBoundary ==
    /\ pc = "api" /\ calls < MaxCalls
    /\ \E attr \in {"now", "next"} :
         /\ c' = IF BoundaryOK(argN) THEN boundary_conditions(c, Ref(c, attr), argN) ELSE c
         /\ Called("boundary_conditions", 0, attr, BoundaryOK(argN))
    /\ QFrame

\* Upstream(c, u, k, n_grid, dt, dx, c1)
QScheme ==
    /\ pc = "api" /\ calls < MaxCalls
    /\ c' = Upstream_c1(c, DT)
    /\ Called("Upstream", 0, "next", TRUE)
    /\ QFrame

NextQ ==
    \/ QStore
    \/ QShift
    \/ QInitial
    \/ QBoundary
    \/ QScheme

SpecQ == InitQ /\ [][NextQ]_vars

\* --------------------------------------------------- one scheme call
\* One call of a scheme function on a Quantity a caller has filled: the
\* current level holds any field, next is as np.empty left it.
Files == {"cont", "multi"}
\* values of the cells of a field given to a scheme
FieldVals == {-5, 600}
\* values of a uniform field
UniformVals == {-5, 250, 600}
Fields(n) == [0..(n - 1) -> FieldVals] \cup {Array(n, v) : v \in UniformVals}

\* the function named name of func_cont.py ("cont") or funcs.py ("multi"),
\* called with u = 0 and k = 0 (zero) or with the u and k of numeric
SchemeCall(file, name, zero, q) ==
    IF zero
    THEN IF file = "cont" THEN SetNext(Crank_Nicolson_ab(q, CNaOf(0, DT), CNbOf(0, DT)),
                                       SrcIdx(q.n_grid), C1)
         ELSE Crank_Nicolson_ab(q, CNaOf(0, DT), CNbOf(0, DT))
    ELSE IF file = "cont" THEN ApplyCont(name, q, DT) ELSE ApplyMulti(name, q, DT)

InitS ==
    /\ variant = "unit"
    /\ schemeName = "Upstream"
    /\ argN \in 3..MaxN
    /\ argT = 1
    /\ pc = "idle"
    /\ run = 0 /\ dt = DT /\ n_time = argT
    /\ \E g \in Garbage, f \in Fields(argN) :
         c = [Quantity(argN, argT, [prev |-> g, now |-> g, next |-> g, store |-> g])
                EXCEPT !.mem[2] = f]
    /\ c_an = NoQuantity
    /\ x = <<>> /\ t_val = 0 /\ t = 0
    /\ cs = <<>> /\ n_times = <<>>
    /\ err = "" /\ wlog = <<>> /\ calls = 0
    /\ qcall = NoCall /\ oplog = <<>>

SFrame == UNCHANGED <<variant, schemeName, argT, argN, run, dt, n_time, c_an, x, t_val, t,
                      cs, n_times, err, wlog, oplog>>

\* <scheme>(c, u, k, n_grid, dt, dx[, c1])
SCall ==
    /\ pc = "idle"
    /\ \E name \in Schemes, file \in Files, zero \in BOOLEAN :
         /\ zero => name = "Crank_Nicolson"
         /\ c' = SchemeCall(file, name, zero, c)
         /\ qcall' = [op |-> name, file |-> file, zero |-> zero, before |-> c, pending |-> {}]
    /\ pc' = "called" /\ calls' = calls + 1
    /\ SFrame

\* boundary_conditions(c.next, n_grid)
SBoundary ==
    /\ pc = "called"
    /\ c' = boundary_conditions(c, c.next, argN)
    /\ pc' = "bounded"
    /\ UNCHANGED <<qcall, calls>>
    /\ SFrame

NextS ==
    \/ SCall
    \/ SBoundary

SpecS == InitS /\ [][NextS]_vars

\* ------------------------------------- one scheme call, index by index
\* The same call with the turns of its loop run as one process per index, in
\* any order, after what the function computes before the loop and before the
\* source write.
\* the indices the loop of the scheme visits
LoopRange(name, n) == IF name = "Lax_Wendroff" THEN 2..(n - 3) ELSE 1..(n - 2)
\* what the function computes before its loop: Crank_Nicolson solves for nxt
BeforeLoop(name, q) ==
    IF name = "Crank_Nicolson" THEN CNnxt(Now(q), q.n_grid, DT) ELSE <<>>
\* one turn of the loop of the scheme
PointUpdate(name, q, nxt, pt) ==
    IF name = "Crank_Nicolson"
    THEN SetNext(q, pt, CNClamp(nxt[pt]))
    ELSE UpdatePt(name, q, pt, DT)
\* whether the function ends with c.next[int(n_grid/3)] = c1
HasSource(file, name) == file = "cont" /\ name # "FCTS"

PStart ==
    /\ pc = "idle"
    /\ \E name \in Schemes, file \in Files :
         qcall' = [op |-> name, file |-> file, zero |-> FALSE, before |-> c,
                   pending |-> LoopRange(name, argN), inverted |-> FALSE,
                   nxt |-> BeforeLoop(name, c)]
    /\ pc' = "par"
    /\ UNCHANGED <<c, calls>>
    /\ SFrame

\* the process of index pt runs its turn
PPoint ==
    /\ pc = "par"
    /\ \E pt \in qcall.pending :
         /\ c' = PointUpdate(qcall.op, c, qcall.nxt, pt)
         /\ qcall' = [qcall EXCEPT
                        !.pending = @ \ {pt},
                        !.inverted = @ \/ \E j \in LoopRange(qcall.op, argN) \ qcall.pending :
                                              j > pt]
    /\ UNCHANGED <<pc, calls>>
    /\ SFrame

\* all processes are done: the source write, and the call returns
PJoin ==
    /\ pc = "par" /\ qcall.pending = {}
    /\ c' = IF HasSource(qcall.file, qcall.op) THEN SetNext(c, SrcIdx(argN), C1) ELSE c
    /\ pc' = "joined" /\ calls' = calls + 1
    /\ UNCHANGED qcall
    /\ SFrame

NextP ==
    \/ PStart
    \/ PPoint
    \/ PJoin

SpecP == InitS /\ [][NextP]_vars

\* ============================================================ properties
\* the history columns written so far on the Quantity of the current run
Written == {wlog[k] : k \in 1..Len(wlog)}
Edge(col, n) == col[0] = col[1] /\ col[n - 1] = col[n - 2]
NonNegative(col, n) == \A i \in 0..(n - 1) : col[i] >= 0
\* P holds of every column stored so far: of c and (cont) c_an in the current
\* run, and of every history already handed over in cs
EveryStored(P(_)) ==
    /\ \A tt \in Written : P(c.store[tt]) /\ (variant = "cont" => P(c_an.store[tt]))
    /\ \A r \in 1..Len(cs) : \A tt \in DOMAIN cs[r] : P(cs[r][tt])
EveryNumericStored(P(_)) ==
    /\ \A tt \in Written : P(c.store[tt])
    /\ variant = "multi" => \A r \in 1..Len(cs) : \A tt \in DOMAIN cs[r] : P(cs[r][tt])
    /\ variant = "cont" /\ Len(cs) > 0 => \A tt \in DOMAIN cs[1] : P(cs[1][tt])

\* C1: with N >= 3, every column written to history, of the numeric and of
\* the analytic field, has field[0] = field[1] and field[N-1] = field[N-2].
C1_BoundaryInvariant ==
    argN >= 3 => LET P(col) == Edge(col, argN) IN EveryStored(P)
\* a finished single-dt run whose stored step has an interior that is not flat
C1_Witness ==
    /\ pc = "done" /\ variant = "cont" /\ argN >= 4 /\ argT >= 2
    /\ c.store[1][1] # c.store[1][2]
    /\ c_an.store[1][1] # c_an.store[1][2]
    /\ Edge(c.store[1], argN) /\ Edge(c_an.store[1], argN)

\* C2: after initial_conditions on a fresh Quantity, for every N >= 1, the
\* current level holds c1 at floor(N/3) and 0 at every other index.
C2_InitialConditionsExact ==
    (pc = "bc0" /\ argN >= 1) =>
        \A i \in 0..(argN - 1) : Now(c)[i] = IF i = SrcIdx(argN) THEN C1 ELSE 0

\* C3: in the multi-resolution driver with num_time >= 1, (time steps run) * dt
\* is the same for the four dt values, whether the steps run are counted as the
\* n_time columns or as the n_time - 1 turns of the loop.
C3_ConstantPhysicalTime ==
    (variant = "multi" /\ pc = "done" /\ argT >= 1) =>
        \/ \A a, b \in 1..Len(dts) : n_times[a] * dts[a] = n_times[b] * dts[b]
        \/ \A a, b \in 1..Len(dts) : (n_times[a] - 1) * dts[a] = (n_times[b] - 1) * dts[b]

\* C4: in a run of T steps the history columns 0..T-1 are written once each,
\* in increasing order, and a written column never changes afterwards.
C4_HistoryAppendOnly ==
    [][/\ \/ wlog' = wlog
          \/ wlog' = Append(wlog, Len(wlog))
          \/ pc = "construct" /\ wlog' = <<>>
       /\ pc # "construct" =>
            \A tt \in Written :
                /\ c'.store[tt] = c.store[tt]
                /\ variant = "cont" => c_an'.store[tt] = c_an.store[tt]
       /\ (pc' = "end" /\ pc # "end") => Len(wlog') = n_time /\ Written' = DOMAIN c'.store
       /\ \A r \in 1..Len(cs) : Len(cs') >= r /\ cs'[r] = cs[r]]_vars
\* a finished run of three columns that differ from one another
C4_Witness ==
    /\ pc = "done" /\ variant = "cont" /\ argT >= 3 /\ Len(wlog) = argT
    /\ c.store[0] # c.store[1] /\ c.store[1] # c.store[2]
    /\ c_an.store[0] # c_an.store[1]

ShiftedByValue(q, r) ==
    /\ Prev(r) = Now(q) /\ Now(r) = Nxt(q) /\ Nxt(r) = Nxt(q)
    /\ r.store = q.store
\* C5: shift() leaves prev = old now and now = old next by value, next and
\* history unchanged; the three arrays stay distinct objects, and a later write
\* to next (scheme, analytic, boundary_conditions) changes neither now nor prev.
C5_ShiftByValue ==
    [][/\ pc = "shift" =>
            /\ ShiftedByValue(c, c')
            /\ variant = "cont" => ShiftedByValue(c_an, c_an')
       /\ (pc \in {"scheme", "analytic", "bc"} /\ pc' # "failed") =>
            /\ Now(c') = Now(c) /\ Prev(c') = Prev(c)
            /\ Now(c_an') = Now(c_an) /\ Prev(c_an') = Prev(c_an)
       /\ Cardinality(Live(c')) = 3 /\ Cardinality(Live(c_an')) = 3]_vars
\* after two shifts, a scheme and boundary_conditions have rewritten next and
\* the three levels hold three different fields
C5_Witness ==
    /\ pc = "store" /\ t >= 3
    /\ Nxt(c) # Now(c) /\ Now(c) # Prev(c)

\* C6: in a Lax_Wendroff run with N >= 3 no stored value is negative.
C6_LaxWendroffNonNegative ==
    (schemeName = "Lax_Wendroff" /\ argN >= 3) =>
        LET P(col) == NonNegative(col, argN) IN EveryNumericStored(P)

\* C7: in a Crank_Nicolson run with N >= 3 no stored value is negative,
\* whatever sign the solved values have.
C7_CrankNicolsonNonNegative ==
    (schemeName = "Crank_Nicolson" /\ argN >= 3) =>
        LET P(col) == NonNegative(col, argN) IN EveryNumericStored(P)
\* a step whose solve gave a negative interior value, stored as 0
C7_Witness ==
    /\ pc = "shift" /\ schemeName = "Crank_Nicolson" /\ argN >= 3
    /\ \E pt \in 1..(argN - 2) :
         /\ CNnxt(Now(c), argN, dt)[pt] < 0
         /\ c.store[t][pt] = 0

SourceAt(col) == col[SrcIdx(argN)] = C1
LastStore == qcall.op = "store_timestep"
\* C9 as claimed: store_timestep(index, level) fails for every index outside
\* 0..T-1, negative ones included, and then modifies no column.
C9_StoreFailsOutsideRange ==
    (LastStore /\ qcall.index \notin 0..(argT - 1)) =>
        ~qcall.ok /\ c.store = qcall.before
\* C9 as amended: store_timestep fails for index >= T and for index < -T, and
\* then modifies no column; an index in -T..-1 is accepted and overwrites
\* column T + index.
C9_StoreFailsOutsideNumpyRange ==
    LastStore =>
        /\ (qcall.index >= argT \/ qcall.index < 0 - argT) =>
             ~qcall.ok /\ c.store = qcall.before
        /\ (0 - argT <= qcall.index /\ qcall.index < 0) =>
             /\ qcall.ok
             /\ c.store = [qcall.before EXCEPT ![argT + qcall.index] = Level(c, qcall.attr)]
        /\ (0 <= qcall.index /\ qcall.index < argT) =>
             /\ qcall.ok
             /\ c.store = [qcall.before EXCEPT ![qcall.index] = Level(c, qcall.attr)]
\* a call with a negative index that changed a column
C9_Witness ==
    /\ LastStore /\ qcall.index < 0 /\ qcall.ok
    /\ c.store # qcall.before
    /\ c.store[argT + qcall.index] = Level(c, qcall.attr)

InvalidConfig ==
    \/ argT <= 0
    \/ argN <= 0
    \/ argN < 3
    \/ schemeName = "Lax_Wendroff" /\ argN < 5
\* C10: a run with an invalid configuration fails before the first scheme
\* call and yields no history; every other run completes.
C10_InvalidConfigFailsFast ==
    /\ InvalidConfig => calls = 0 /\ pc # "done"
    /\ ~InvalidConfig => pc # "failed"

Interior(n) == 1..(n - 2)
\* C11 as claimed: with u = 0 and k = 0, for every N >= 3 and every current
\* field, negative entries included, one Crank_Nicolson call leaves
\* next[i] = current[i] at every interior index i in 1..N-2.
C11_CrankNicolsonIdentity ==
    (pc = "called" /\ qcall.op = "Crank_Nicolson" /\ qcall.zero) =>
        \A i \in Interior(argN) : Nxt(c)[i] = Now(qcall.before)[i]
\* C11 as amended: with u = 0 and k = 0, one Crank_Nicolson call leaves
\* next[i] = max(0, current[i]) at every interior index i, except that
\* func_cont.Crank_Nicolson then sets next[floor(N/3)] to c1; the current
\* level is left as it was.
C11_CrankNicolsonClampedIdentity ==
    (pc = "called" /\ qcall.op = "Crank_Nicolson" /\ qcall.zero) =>
        /\ \A i \in Interior(argN) :
             Nxt(c)[i] = IF qcall.file = "cont" /\ i = SrcIdx(argN) THEN C1
                         ELSE IF Now(qcall.before)[i] > 0 THEN Now(qcall.before)[i]
                         ELSE 0
        /\ Now(c) = Now(qcall.before)
\* a call with u = 0 and k = 0 on a field with a negative and a positive
\* interior entry away from the source index
C11_Witness ==
    /\ pc = "called" /\ qcall.op = "Crank_Nicolson" /\ qcall.zero
    /\ \E i, j \in Interior(argN) \ {SrcIdx(argN)} :
         /\ Now(qcall.before)[i] < 0 /\ Nxt(c)[i] = 0
         /\ Now(qcall.before)[j] > 0 /\ Nxt(c)[j] = Now(qcall.before)[j]
         /\ Nxt(qcall.before)[j] # Nxt(c)[j]

Uniform(a, n) == \A i \in 0..(n - 1) : a[i] = a[0]
\* C12: when the current field is uniform with value v, for every v (also
\* v # c1) and every N >= 3, one nsdf step followed by boundary_conditions
\* leaves next equal to v at every index.
C12_NsdfUniformSteady ==
    (pc = "bounded" /\ qcall.op = "nsdf" /\ Uniform(Now(qcall.before), argN)) =>
        \A i \in 0..(argN - 1) : Nxt(c)[i] = Now(qcall.before)[0]

\* the four calls of loop turn tt, in the order of the code
StepOps(tt) ==
    << <<"scheme", tt>>, <<"boundary_conditions", tt>>, <<"store_timestep", tt>>,
       <<"shift", tt>> >>
RECURSIVE StepsFrom(_, _)
StepsFrom(tt, T) == IF tt >= T THEN <<>> ELSE StepOps(tt) \o StepsFrom(tt + 1, T)
\* the calls of a run of T columns: the seed, then turns 1..T-1
ExpectedLog(T) ==
    << <<"initial_conditions", 0>>, <<"boundary_conditions", 0>>, <<"store_timestep", 0>> >>
      \o StepsFrom(1, T)
IsAnalytic(e) == e[1] = "analytic"
NotAnalytic(e) == ~IsAnalytic(e)
\* the calls made on the numeric field
NumericLog == SelectSeq(oplog, NotAnalytic)
IsPrefix(a, b) == Len(a) <= Len(b) /\ a = SubSeq(b, 1, Len(a))
Finished == pc \in {"end", "graph", "done"}
\* C13: for every T >= 1 (and a grid of N >= 3 points) the driver seeds
\* column 0 from the current level and then makes exactly T-1 loop turns; in
\* turn t the scheme, boundary_conditions on next, the store of next into
\* column t and shift() happen once each, in this order, the shift of turn t
\* before the scheme of turn t+1; and the run ends with all T columns written.
C13_DriverStepOrder ==
    /\ [](/\ pc # "construct" => IsPrefix(NumericLog, ExpectedLog(n_time))
          /\ (argN >= 3 /\ argT >= 1) =>
               /\ pc # "failed"
               /\ Finished => (NumericLog = ExpectedLog(n_time) /\ Written = 0..(n_time - 1))
               /\ pc = "shift" => c.store[t] = Nxt(c)
               /\ (pc \in {"scheme", "end"}) => c.store[t - 1] = Now(c))
    /\ (argN >= 3 /\ argT >= 1) ~> (pc = "done")
\* a finished single-dt run of at least three loop turns
C13_Witness ==
    /\ pc = "done" /\ variant = "cont" /\ argN >= 3 /\ argT >= 4
    /\ NumericLog = ExpectedLog(argT)
    /\ Len(NumericLog) = 3 + 4 * (argT - 1)
    /\ calls = argT - 1

\* the analytic calls of the log
AnalyticLog == SelectSeq(oplog, IsAnalytic)
\* the initial condition with its edge cells copied from their neighbours
SeedField(n) ==
    [i \in 0..(n - 1) |->
        LET j == IF i = 0 THEN 1 ELSE IF i = n - 1 THEN n - 2 ELSE i
        IN  IF j = SrcIdx(n) THEN C1 ELSE 0]
\* C14: the driver never calls analytic with t = 0: the analytic value stored
\* in column t, for every t in 1..T-1, is computed with elapsed time
\* t*dt > 0, and column 0 of the analytic field is filled from the initial
\* condition without a call of analytic.
C14_AnalyticTimePositive ==
    variant = "cont" =>
        /\ err # "ZeroDivisionError"
        /\ \A k \in 1..Len(AnalyticLog) : AnalyticLog[k][2] = k * dt /\ AnalyticLog[k][2] > 0
        /\ (0 \in Written /\ argN >= 3) =>
             /\ oplog[3] = <<"store_timestep", 0>>
             /\ c_an.store[0] = SeedField(argN)
        /\ \A tt \in Written \ {0} :
             /\ Len(AnalyticLog) >= tt
             /\ c_an.store[tt] =
                  Nxt(boundary_conditions(analytic(c_an, tt * dt, x, argN), c_an.next, argN))
\* a finished run whose analytic columns 1 and 2 were computed at t = dt and
\* t = 2*dt and differ from the initial condition
C14_Witness ==
    /\ pc = "done" /\ variant = "cont" /\ argN >= 4 /\ argT >= 3
    /\ AnalyticLog[1] = <<"analytic", DT>> /\ AnalyticLog[2] = <<"analytic", 2 * DT>>
    /\ c_an.store[1] # c_an.store[0]
    /\ c_an.store[2] # c_an.store[0]

\* C15: within one call of any of the five schemes the value written to
\* next[i] is computed from the current level and the parameters only, never
\* from next[j] for j # i: running the interior updates as one process per
\* index in any interleaving, with the source write at floor(N/3) last, gives
\* the same next array as the sequential loop (and leaves the current level
\* as it was).
C15_IndexUpdatesIndependent ==
    pc = "joined" =>
        /\ Nxt(c) = Nxt(SchemeCall(qcall.file, qcall.op, FALSE, qcall.before))
        /\ Now(c) = Now(qcall.before)
\* a call whose processes ran out of index order on a field that is not
\* uniform, and wrote values that differ between indices
C15_Witness ==
    /\ pc = "joined" /\ qcall.inverted /\ argN >= 6
    /\ ~Uniform(Now(qcall.before), argN)
    /\ \E i, j \in LoopRange(qcall.op, argN) :
         /\ i # j /\ Nxt(c)[i] # Nxt(c)[j]
         /\ Nxt(c)[i] # Nxt(qcall.before)[i]

====
